---- MODULE Spec2Model ----
(***************************************************************************)
(* Model of js/view.js: the View of the todo-list application.             *)
(*                                                                         *)
(*   render(viewCmd, parameter)  mutates the rendering surface             *)
(*   bind(event, handler)        subscribes controller handlers            *)
(*                                                                         *)
(* The document is modelled by the children of .todo-list (todoList), the  *)
(* filter links (filters), the toggle-all and new-todo controls (anchors)  *)
(* and the event listeners registered so far (listeners).  binds records  *)
(* the bind calls made, calls the controller handlers invoked by the most  *)
(* recent step, in order, and last the most recent step and its arguments. *)
(***************************************************************************)
EXTENDS Integers, Sequences, FiniteSets

VARIABLES todoList, filters, anchors, listeners, binds, calls, last

vars == <<todoList, filters, anchors, listeners, binds, calls, last>>

----------------------------------------------------------------------------
(* Bounds and input sets *)

MaxNodes == 3          \* item nodes plus edit fields in .todo-list
MaxBinds == 2          \* bind calls made by the controller

Ids == {3, 12}         \* item ids (numbers)
Titles == {"A", "B"}   \* item titles and edit-field contents
Handlers == {"h1", "h2"}
Pages == {"", "active", "completed"}

ENTER_KEY == 13
ESCAPE_KEY == 27
Keys == {ENTER_KEY, ESCAPE_KEY}

\* the event names of bind
EventNames ==
    <<"newTodo", "removeCompleted", "toggleAll", "itemEdit", "itemRemove",
      "itemToggle", "itemEditDone", "itemEditCancel">>

Events == {EventNames[i] : i \in 1..Len(EventNames)}

\* the commands of render: the keys of the viewCommands object
ViewCommands ==
    {"showEntries", "removeItem", "updateElementCount", "clearCompletedButton",
     "contentBlockVisibility", "toggleAll", "setFilter", "clearNewTodo",
     "elementComplete", "editItem", "editItemDone"}

\* viewCommands is an object literal: a name that is not one of its keys is
\* looked up in Object.prototype, whose methods can be called without
\* arguments and then return without effect
ObjectPrototype ==
    {"toString", "toLocaleString", "valueOf", "hasOwnProperty",
     "isPrototypeOf", "propertyIsEnumerable", "constructor"}

\* command names a caller may pass that are not commands
OtherNames == {"refresh", "toString"}

\* the anchors that the constructor looks up in the document
AnchorNames ==
    {"$todoList", "$todoItemCounter", "$clearCompleted", "$main", "$footer",
     "$toggleAll", "$newTodo"}

\* item counts
Counts == {0, 2}

\* the items of the store: a new item has the first title, later titles come
\* from edits
Item == [id : Ids, title : {"A"}, completed : BOOLEAN]

\* the collections a controller passes to showEntries: items of the store,
\* whose ids are pairwise distinct
Collections ==
    {<<>>} \cup {<<a>> : a \in Item}
           \cup {ab \in Item \X Item : ab[1].id # ab[2].id}

----------------------------------------------------------------------------
(* Strings of digits: Str(n) is '' + n, ParseInt(s) is parseInt(s, 10) *)

RECURSIVE Str(_)
Str(n) == IF n < 10 THEN <<n>> ELSE Append(Str(n \div 10), n % 10)

RECURSIVE ParseIntFrom(_, _)
ParseIntFrom(s, acc) ==
    IF s = <<>> THEN acc ELSE ParseIntFrom(Tail(s), acc * 10 + Head(s))

ParseInt(s) == ParseIntFrom(s, 0)

----------------------------------------------------------------------------
(* Sequences *)

RemoveAt(s, i) == [j \in 1..(Len(s) - 1) |-> IF j < i THEN s[j] ELSE s[j + 1]]

RECURSIVE RemoveFirst(_, _)
RemoveFirst(s, x) ==
    IF s = <<>> THEN <<>>
    ELSE IF Head(s) = x THEN Tail(s)
    ELSE <<Head(s)>> \o RemoveFirst(Tail(s), x)

RECURSIVE Sum(_)
Sum(s) == IF s = <<>> THEN 0 ELSE Head(s) + Sum(Tail(s))

----------------------------------------------------------------------------
(* The rendering surface *)

\* markup of one item as template.show produces it, parsed into a node:
\*   <li data-id="{{id}}" class="{{completed}}">
\*     <input class="toggle" type="checkbox" {{checked}}>
\*     <label>{{title}}</label><button class="destroy"></button></li>
\* item remembers the item the node was rendered from
Li(it) ==
    [dataId    |-> Str(it.id),
     className |-> IF it.completed THEN <<"completed">> ELSE <<>>,
     checked   |-> it.completed,
     label     |-> it.title,
     edits     |-> <<>>,
     item      |-> it.id]

Show(items) == [i \in 1..Len(items) |-> Li(items[i])]

\* qs('[data-id="' + id + '"]'): index of the first match, 0 for null
Qs(list, id) ==
    LET m == {i \in 1..Len(list) : list[i].dataId = Str(id)}
    IN  IF m = {} THEN 0 ELSE CHOOSE i \in m : \A j \in m : i <= j

NumEdits(list) == Sum([i \in 1..Len(list) |-> Len(list[i].edits)])

\* the edit field that has input focus, as <<node index, field index>>
FocusedFields(list) ==
    {pk \in (1..Len(list)) \X (1..MaxNodes) :
        /\ pk[2] <= Len(list[pk[1]].edits)
        /\ list[pk[1]].edits[pk[2]].focused}

\* the most recent step: its name, the id it names (for user input: the
\* item of the node it happened on), the edit field or node index it
\* happened on, its other argument, whether qs found the node, and whether
\* it threw.  pre and orig are set by elementComplete only: the class and
\* checkbox of the node before the command and, when the command clears the
\* completion that the command before it set on the same node, before both.
\* within holds, for each handler call of the step, the listeners that were
\* executing when the call was made.
NoCmd == [op |-> "init", id |-> 0, k |-> 0, arg |-> "", found |-> FALSE,
          pre |-> <<>>, orig |-> <<>>, fault |-> FALSE, within |-> <<>>]

Cmd(op, id, arg) == [NoCmd EXCEPT !.op = op, !.id = id, !.arg = arg]

CmdOn(list, op, id, arg) == [Cmd(op, id, arg) EXCEPT !.found = Qs(list, id) # 0]

----------------------------------------------------------------------------
(* Event listeners *)

\* A registration is the target, the selector ("" for a direct subscription)
\* and the event type that $on or $delegate was called with.  The selectors
\* that view.js delegates match disjoint sets of elements, so the listeners
\* that receive one event are those of one registration, in the order in
\* which they were added.
Registrations ==
    {<<"$newTodo", "", "change">>,
     <<"$clearCompleted", "", "click">>,
     <<"$toggleAll", "", "click">>,
     <<"$todoList", "li label", "dblclick">>,
     <<"$todoList", ".destroy", "click">>,
     <<"$todoList", ".toggle", "click">>,
     <<"$todoList", "li .edit", "blur">>,
     <<"$todoList", "li .edit", "keypress">>,
     <<"$todoList", "li .edit", "keyup">>}

NoListeners == [r \in Registrations |-> <<>>]

\* a listener: the function registered (named after its place in bind) and
\* the controller handler it closes over
Listener(fn, handler) == [fn |-> fn, handler |-> handler]

\* $on(target, type, fn) adds a listener to the target
On(ls, target, type, fn, handler) ==
    [ls EXCEPT ![<<target, "", type>>] = Append(@, Listener(fn, handler))]

\* $delegate(target, selector, type, fn) adds a listener to the target,
\* which is run for the descendants that match the selector
Delegate(ls, target, sel, type, fn, handler) ==
    [ls EXCEPT ![<<target, sel, type>>] = Append(@, Listener(fn, handler))]

\* does an element of the given kind match the selector of a delegation
SelectorMatches(sel, kind) ==
    \/ sel = "li label" /\ kind = "label"
    \/ sel = ".destroy" /\ kind = "destroy"
    \/ sel = ".toggle"  /\ kind = "toggle"
    \/ sel = "li .edit" /\ kind = "edit"

\* are the listeners of registration r run for an event of this type on an
\* element of this kind
Receives(r, type, kind) ==
    /\ r[3] = type
    /\ IF r[2] = "" THEN r[1] = kind
       ELSE r[1] = "$todoList" /\ SelectorMatches(r[2], kind)

Call(event, handler, payload) ==
    [event |-> event, handler |-> handler, payload |-> payload]

NoField == [value |-> "", iscanceled |-> FALSE, focused |-> FALSE]

\* a listener calls the handler it closes over: the call is recorded with
\* the listeners that are executing at that moment, outermost first
Invoke(st, event, handler, payload) ==
    [st EXCEPT !.calls = Append(@, Call(event, handler, payload)),
               !.within = Append(@, st.stack)]

\* mutant: the id is read from the first li of the list
_itemIdOfFirst(node) == ParseInt(todoList[1].dataId)

\* View.prototype._itemId: $parent(element, 'li') is the enclosing node
_itemId(node) == ParseInt(node.dataId)

\* mutant: the commit takes the title from the label, not from the field
ItemEditDoneBlurLabel(h, node, st) ==
    IF ~st.field.iscanceled
    THEN Invoke(st, "itemEditDone", h,
                [id |-> _itemId(node), title |-> node.label])
    ELSE st

\* mutant: the flag suppresses one blur and is cleared by it
ItemEditDoneBlurOnce(h, node, st) ==
    IF ~st.field.iscanceled
    THEN Invoke(st, "itemEditDone", h,
                [id |-> _itemId(node), title |-> st.field.value])
    ELSE [st EXCEPT !.field.iscanceled = FALSE]

\* the blur listener of _bindItemEditDone
ItemEditDoneBlur(h, node, st) ==
    IF ~st.field.iscanceled
    THEN Invoke(st, "itemEditDone", h,
                [id |-> _itemId(node), title |-> st.field.value])
    ELSE st

RECURSIVE Dispatch(_, _, _, _, _, _)

\* HTMLElement.blur(): an element that has focus loses it and a blur event
\* is dispatched to it before blur() returns; otherwise nothing happens
ElementBlur(node, st) ==
    IF st.field.focused
    THEN Dispatch(st.all, "blur", "edit", node,
                  [st EXCEPT !.field.focused = FALSE], 0)
    ELSE st

\* the keypress listener of _bindItemEditDone
ItemEditDoneKeypress(node, st, key) ==
    IF key = ENTER_KEY THEN ElementBlur(node, st) ELSE st

\* mutant: Escape forces the blur before it sets the flag
ItemEditCancelKeyupBlurFirst(h, node, st, key) ==
    IF key = ESCAPE_KEY
    THEN LET blurred == ElementBlur(node, st)
             flagged == [blurred EXCEPT !.field.iscanceled = TRUE]
         IN  Invoke(flagged, "itemEditCancel", h, [id |-> _itemId(node)])
    ELSE st

\* the keyup listener of _bindItemEditCancel
ItemEditCancelKeyup(h, node, st, key) ==
    IF key = ESCAPE_KEY
    THEN LET flagged == [st EXCEPT !.field.iscanceled = TRUE]
             blurred == ElementBlur(node, flagged)
         IN  Invoke(blurred, "itemEditCancel", h, [id |-> _itemId(node)])
    ELSE st

\* the function a listener was registered with, applied to one event
Body(l, node, st, key) ==
    CASE l.fn = "newTodo" ->
           Invoke(st, "newTodo", l.handler, [value |-> st.anchors.newTodo])
      [] l.fn = "removeCompleted" ->
           Invoke(st, "removeCompleted", l.handler, [none |-> TRUE])
      [] l.fn = "toggleAll" ->
           Invoke(st, "toggleAll", l.handler,
                  [completed |-> st.anchors.toggleAll])
      [] l.fn = "itemEdit" ->
           Invoke(st, "itemEdit", l.handler, [id |-> _itemId(node)])
      [] l.fn = "itemRemove" ->
           Invoke(st, "itemRemove", l.handler, [id |-> _itemId(node)])
      [] l.fn = "itemToggle" ->
           Invoke(st, "itemToggle", l.handler,
                  [id |-> _itemId(node), completed |-> node.checked])
      [] l.fn = "itemEditDone.blur" -> ItemEditDoneBlur(l.handler, node, st)
      [] l.fn = "itemEditDone.keypress" -> ItemEditDoneKeypress(node, st, key)
      [] l.fn = "itemEditCancel.keyup" ->
           ItemEditCancelKeyup(l.handler, node, st, key)

\* a listener is executing from its invocation until it returns
Run(l, node, st, key) ==
    [Body(l, node, [st EXCEPT !.stack = Append(@, l.fn)], key) EXCEPT
        !.stack = st.stack]

RECURSIVE RunAll(_, _, _, _)
RunAll(fns, node, st, key) ==
    IF fns = <<>> THEN st
    ELSE RunAll(Tail(fns), node, Run(Head(fns), node, st, key), key)

\* dispatchEvent: the listeners that receive the event run in the order of
\* their registration
Dispatch(ls, type, kind, node, st, key) ==
    LET rs == {r \in DOMAIN ls : Receives(r, type, kind)}
    IN  IF rs = {} THEN st
        ELSE RunAll(ls[CHOOSE r \in rs : TRUE], node, st, key)

\* the state a dispatch works on: the target field, the handler calls made
\* so far, all listeners and the anchors
St(field) ==
    [field |-> field, calls |-> <<>>, all |-> listeners, anchors |-> anchors,
     stack |-> <<>>, within |-> <<>>]

NoNode == Li([id |-> 0, title |-> "", completed |-> FALSE])

\* the field that has focus loses it (focus moves elsewhere): the list
\* afterwards and the handler calls the blur produced
BlurFocused(list) ==
    IF FocusedFields(list) = {}
    THEN [list |-> list, calls |-> <<>>, within |-> <<>>]
    ELSE LET pk == CHOOSE x \in FocusedFields(list) : TRUE
             st == ElementBlur(list[pk[1]], St(list[pk[1]].edits[pk[2]]))
         IN  [list   |-> [list EXCEPT ![pk[1]].edits[pk[2]] = st.field],
              calls  |-> st.calls,
              within |-> st.within]

----------------------------------------------------------------------------
(* The private methods of View, as functions of the document *)

\* mutant: the last child of the list is removed instead of the match
_removeItemLast(list, id) ==
    LET elem == Qs(list, id)
    IN  IF elem # 0 THEN RemoveAt(list, Len(list)) ELSE list

_removeItem(list, id) ==
    LET elem == Qs(list, id)
    IN  IF elem # 0 THEN RemoveAt(list, elem) ELSE list

\* mutant: the marker is set without clearing the previous one
_setFilterNoClear(fs, currentPage) ==
    LET tgt == {i \in 1..Len(fs) : fs[i].page = currentPage}
        first(m) == CHOOSE i \in m : \A j \in m : i <= j
    IN  IF tgt = {} THEN [filters |-> fs, fault |-> TRUE]
        ELSE [filters |-> [fs EXCEPT ![first(tgt)].className = "selected"],
              fault   |-> FALSE]

\* the filter links in document order; fault: qs found no element and the
\* assignment to its className threw
_setFilter(fs, currentPage) ==
    LET sel == {i \in 1..Len(fs) : fs[i].className = "selected"}
        tgt == {i \in 1..Len(fs) : fs[i].page = currentPage}
        first(m) == CHOOSE i \in m : \A j \in m : i <= j
    IN  IF sel = {} THEN [filters |-> fs, fault |-> TRUE]
        ELSE LET cleared == [fs EXCEPT ![first(sel)].className = ""]
             IN  IF tgt = {} THEN [filters |-> cleared, fault |-> TRUE]
                 ELSE [filters |-> [cleared EXCEPT
                                      ![first(tgt)].className = "selected"],
                       fault   |-> FALSE]

\* mutant: the branches of the class are swapped
_elementCompleteSwapped(list, id, completed) ==
    LET listItem == Qs(list, id)
    IN  IF listItem = 0 THEN list
        ELSE [list EXCEPT
                ![listItem].className =
                    IF completed THEN <<>> ELSE <<"completed">>,
                ![listItem].checked = completed]

_elementComplete(list, id, completed) ==
    LET listItem == Qs(list, id)
    IN  IF listItem = 0 THEN list
        ELSE [list EXCEPT
                ![listItem].className =
                    IF completed THEN <<"completed">> ELSE <<>>,
                ![listItem].checked = completed]

\* mutant: the new field is seeded but never focused
_editItemNoFocus(list, id, title) ==
    LET listItem == Qs(list, id)
    IN  IF listItem = 0 THEN [list |-> list, calls |-> <<>>, within |-> <<>>]
        ELSE LET classed  == [list EXCEPT
                                ![listItem].className = Append(@, "editing")]
                 appended == [classed EXCEPT
                                ![listItem].edits = Append(@, NoField)]
                 input    == Len(appended[listItem].edits)
             IN  [list   |-> [appended EXCEPT
                                ![listItem].edits[input].value = title],
                  calls  |-> <<>>,
                  within |-> <<>>]

\* input.focus() takes the focus from the field that had it, which
\* dispatches a blur event to that field
_editItem(list, id, title) ==
    LET listItem == Qs(list, id)
    IN  IF listItem = 0 THEN [list |-> list, calls |-> <<>>, within |-> <<>>]
        ELSE LET classed  == [list EXCEPT
                                ![listItem].className = Append(@, "editing")]
                 appended == [classed EXCEPT
                                ![listItem].edits = Append(@, NoField)]
                 input    == Len(appended[listItem].edits)
                 blurred  == BlurFocused(appended)
                 focused  == [blurred.list EXCEPT
                                ![listItem].edits[input].focused = TRUE]
             IN  [list   |-> [focused EXCEPT
                                ![listItem].edits[input].value = title],
                  calls  |-> blurred.calls,
                  within |-> blurred.within]

\* mutant: the editing class is left on the node
_editItemDoneKeepClass(list, id, title) ==
    LET listItem == Qs(list, id)
    IN  IF listItem = 0 THEN [list |-> list, fault |-> FALSE]
        ELSE IF list[listItem].edits = <<>>
        THEN [list |-> list, fault |-> TRUE]
        ELSE [list  |-> [list EXCEPT
                           ![listItem].edits = Tail(@),
                           ![listItem].label = title],
              fault |-> FALSE]

\* mutant: the test of listItem is missing, qs('input.edit', null) throws
_editItemDoneNoGuard(list, id, title) ==
    LET listItem == Qs(list, id)
    IN  IF listItem = 0 THEN [list |-> list, fault |-> TRUE]
        ELSE IF list[listItem].edits = <<>>
        THEN [list |-> list, fault |-> TRUE]
        ELSE [list  |-> [list EXCEPT
                           ![listItem].edits = Tail(@),
                           ![listItem].className = RemoveFirst(@, "editing"),
                           ![listItem].label = title],
              fault |-> FALSE]

\* fault: qs('input.edit', listItem) is null and removeChild(null) threw
_editItemDone(list, id, title) ==
    LET listItem == Qs(list, id)
    IN  IF listItem = 0 THEN [list |-> list, fault |-> FALSE]
        ELSE IF list[listItem].edits = <<>>
        THEN [list |-> list, fault |-> TRUE]
        ELSE [list  |-> [list EXCEPT
                           ![listItem].edits = Tail(@),
                           ![listItem].className = RemoveFirst(@, "editing"),
                           ![listItem].label = title],
              fault |-> FALSE]

\* parameter.key: the value of the property as <<value>>, or Undefined
Undefined == <<>>

Get(parameter, key) ==
    IF key \in DOMAIN parameter THEN <<parameter[key]>> ELSE Undefined

\* ToBoolean of a property that holds a boolean when it is defined
Truthy(v) == v # Undefined /\ v[1]

\* the markup that a function of the template returns for an argument
Template(fn, arg) == [template |-> fn, of |-> arg]

\* mutant: the button is shown whatever visible is
_clearCompletedButtonShown(a, completedCount, visible) ==
    IF "$clearCompleted" \notin a.found THEN [anchors |-> a, fault |-> TRUE]
    ELSE [anchors |-> [a EXCEPT !.clearCompleted =
                         [innerHTML |-> Template("clearCompletedButton",
                                                 completedCount),
                          display   |-> "block"]],
          fault   |-> FALSE]

\* fault: this.$clearCompleted is null and the first assignment threw
_clearCompletedButton(a, completedCount, visible) ==
    IF "$clearCompleted" \notin a.found THEN [anchors |-> a, fault |-> TRUE]
    ELSE [anchors |-> [a EXCEPT !.clearCompleted =
                         [innerHTML |-> Template("clearCompletedButton",
                                                 completedCount),
                          display   |-> IF Truthy(visible) THEN "block"
                                        ELSE "none"]],
          fault   |-> FALSE]

_bindItemEditDone(ls, handler) ==
    Delegate(Delegate(ls, "$todoList", "li .edit", "blur",
                      "itemEditDone.blur", handler),
             "$todoList", "li .edit", "keypress",
             "itemEditDone.keypress", handler)

_bindItemEditCancel(ls, handler) ==
    Delegate(ls, "$todoList", "li .edit", "keyup",
             "itemEditCancel.keyup", handler)

\* the event a listener function was registered for
EventOf(fn) ==
    CASE fn = "itemEditDone.blur" -> "itemEditDone"
      [] fn = "itemEditDone.keypress" -> "itemEditDone"
      [] fn = "itemEditCancel.keyup" -> "itemEditCancel"
      [] OTHER -> fn

\* mutant: a bind replaces the listeners of earlier binds of the same event
bindReplacing(ls, event, handler) ==
    LET kept == [r \in DOMAIN ls |->
                    SelectSeq(ls[r], LAMBDA l : EventOf(l.fn) # event)]
    IN  CASE event = "newTodo" ->
               On(kept, "$newTodo", "change", "newTodo", handler)
          [] event = "removeCompleted" ->
               On(kept, "$clearCompleted", "click", "removeCompleted",
                  handler)
          [] event = "toggleAll" ->
               On(kept, "$toggleAll", "click", "toggleAll", handler)
          [] event = "itemEdit" ->
               Delegate(kept, "$todoList", "li label", "dblclick",
                        "itemEdit", handler)
          [] event = "itemRemove" ->
               Delegate(kept, "$todoList", ".destroy", "click",
                        "itemRemove", handler)
          [] event = "itemToggle" ->
               Delegate(kept, "$todoList", ".toggle", "click",
                        "itemToggle", handler)
          [] event = "itemEditDone" -> _bindItemEditDone(kept, handler)
          [] event = "itemEditCancel" -> _bindItemEditCancel(kept, handler)
          [] OTHER -> kept

bind(ls, event, handler) ==
    CASE event = "newTodo" ->
           On(ls, "$newTodo", "change", "newTodo", handler)
      [] event = "removeCompleted" ->
           On(ls, "$clearCompleted", "click", "removeCompleted", handler)
      [] event = "toggleAll" ->
           On(ls, "$toggleAll", "click", "toggleAll", handler)
      [] event = "itemEdit" ->
           Delegate(ls, "$todoList", "li label", "dblclick", "itemEdit",
                    handler)
      [] event = "itemRemove" ->
           Delegate(ls, "$todoList", ".destroy", "click", "itemRemove",
                    handler)
      [] event = "itemToggle" ->
           Delegate(ls, "$todoList", ".toggle", "click", "itemToggle",
                    handler)
      [] event = "itemEditDone" -> _bindItemEditDone(ls, handler)
      [] event = "itemEditCancel" -> _bindItemEditCancel(ls, handler)
      [] OTHER -> ls

----------------------------------------------------------------------------
(* State after construction: an empty list, the "All" filter selected *)

\* the anchors of a document in which qs found the elements of found (the
\* other references are null): the checkbox of .toggle-all, the value of
\* .new-todo, the content of .todo-count, the content and the display style
\* of .clear-completed, the display styles of .main and .footer
Document(found) ==
    [found |-> found, toggleAll |-> FALSE, newTodo |-> "", counter |-> "",
     clearCompleted |-> [innerHTML |-> "", display |-> ""],
     main |-> "", footer |-> ""]

Init ==
    /\ todoList = <<>>
    /\ filters = <<[page |-> "", className |-> "selected"],
                   [page |-> "active", className |-> ""],
                   [page |-> "completed", className |-> ""]>>
    /\ anchors = Document(AnchorNames)
    /\ listeners = NoListeners
    /\ binds = [e \in Events |-> <<>>]
    /\ calls = <<>>
    /\ last = NoCmd

----------------------------------------------------------------------------
(* render(viewCmd, parameter) *)

\* mutant: the markup is appended to the content of the list
ShowEntriesAppend(items) ==
    /\ todoList' = todoList \o Show(items)
    /\ calls' = <<>>
    /\ last' = Cmd("showEntries", 0, items)
    /\ UNCHANGED <<filters, anchors, listeners, binds>>

\* fault: the reference is null and the assignment to its property threw
ShowEntries(items) ==
    LET ok == "$todoList" \in anchors.found
    IN  /\ todoList' = IF ok THEN Show(items) ELSE todoList
        /\ calls' = <<>>
        /\ last' = [Cmd("showEntries", 0, items) EXCEPT !.fault = ~ok]
        /\ UNCHANGED <<filters, anchors, listeners, binds>>

RemoveItem(id) ==
    /\ todoList' = _removeItem(todoList, id)
    /\ calls' = <<>>
    /\ last' = CmdOn(todoList, "removeItem", id, "")
    /\ UNCHANGED <<filters, anchors, listeners, binds>>

UpdateElementCount(count) ==
    LET ok == "$todoItemCounter" \in anchors.found
    IN  /\ anchors' = IF ok THEN [anchors EXCEPT
                                    !.counter = Template("itemCounter", <<count>>)]
                       ELSE anchors
        /\ calls' = <<>>
        /\ last' = [Cmd("updateElementCount", 0, count) EXCEPT !.fault = ~ok]
        /\ UNCHANGED <<todoList, filters, listeners, binds>>

\* render passes parameter.completed and parameter.visible
ClearCompletedButton(parameter) ==
    LET r == _clearCompletedButton(anchors, Get(parameter, "completed"),
                                   Get(parameter, "visible"))
    IN  /\ anchors' = r.anchors
        /\ calls' = <<>>
        /\ last' = [Cmd("clearCompletedButton", 0, parameter) EXCEPT
                      !.fault = r.fault]
        /\ UNCHANGED <<todoList, filters, listeners, binds>>

\* the references self.$main.style and self.$footer.style are evaluated
\* before either display is assigned
ContentBlockVisibility(visible) ==
    LET ok == {"$main", "$footer"} \subseteq anchors.found
        display == IF visible THEN "block" ELSE "none"
    IN  /\ anchors' = IF ok THEN [anchors EXCEPT !.main = display,
                                                 !.footer = display]
                       ELSE anchors
        /\ calls' = <<>>
        /\ last' = [Cmd("contentBlockVisibility", 0, visible) EXCEPT
                      !.fault = ~ok]
        /\ UNCHANGED <<todoList, filters, listeners, binds>>

ToggleAll(checked) ==
    LET ok == "$toggleAll" \in anchors.found
    IN  /\ anchors' = IF ok THEN [anchors EXCEPT !.toggleAll = checked]
                       ELSE anchors
        /\ calls' = <<>>
        /\ last' = [Cmd("toggleAll", 0, checked) EXCEPT !.fault = ~ok]
        /\ UNCHANGED <<todoList, filters, listeners, binds>>

SetFilter(page) ==
    LET r == _setFilter(filters, page)
    IN  /\ filters' = r.filters
        /\ calls' = <<>>
        /\ last' = [Cmd("setFilter", 0, page) EXCEPT !.fault = r.fault]
        /\ UNCHANGED <<todoList, anchors, listeners, binds>>

ClearNewTodo ==
    LET ok == "$newTodo" \in anchors.found
    IN  /\ anchors' = IF ok THEN [anchors EXCEPT !.newTodo = ""] ELSE anchors
        /\ calls' = <<>>
        /\ last' = [Cmd("clearNewTodo", 0, "") EXCEPT !.fault = ~ok]
        /\ UNCHANGED <<todoList, filters, listeners, binds>>

\* pre: class and checkbox state of the target before the command
ElementComplete(id, completed) ==
    LET listItem == Qs(todoList, id)
    IN  /\ todoList' = _elementComplete(todoList, id, completed)
        /\ calls' = <<>>
        /\ last' = [CmdOn(todoList, "elementComplete", id, completed) EXCEPT
                      !.pre = IF listItem = 0 THEN <<>>
                              ELSE <<todoList[listItem].className,
                                     todoList[listItem].checked>>,
                      !.orig = IF /\ listItem # 0
                                  /\ ~completed
                                  /\ last.op = "elementComplete"
                                  /\ last.id = id
                                  /\ last.arg = TRUE
                               THEN last.pre ELSE <<>>]
        /\ UNCHANGED <<filters, anchors, listeners, binds>>

EditItem(id, title) ==
    LET r == _editItem(todoList, id, title)
    IN  /\ Len(todoList) + NumEdits(todoList) < MaxNodes
        /\ todoList' = r.list
        /\ calls' = r.calls
        /\ last' = [CmdOn(todoList, "editItem", id, title) EXCEPT
                      !.within = r.within]
        /\ UNCHANGED <<filters, anchors, listeners, binds>>

EditItemDone(id, title) ==
    LET r == _editItemDone(todoList, id, title)
    IN  /\ todoList' = r.list
        /\ calls' = <<>>
        /\ last' = [CmdOn(todoList, "editItemDone", id, title) EXCEPT
                      !.fault = r.fault]
        /\ UNCHANGED <<filters, anchors, listeners, binds>>

\* viewCommands[viewCmd]() for a name that is not a key of viewCommands: a
\* method of Object.prototype is called and returns, undefined is not a
\* function and the call throws
Render(viewCmd) ==
    /\ viewCmd \notin ViewCommands
    /\ calls' = <<>>
    /\ last' = [Cmd("render", 0, viewCmd) EXCEPT
                  !.fault = viewCmd \notin ObjectPrototype]
    /\ UNCHANGED <<todoList, filters, anchors, listeners, binds>>

----------------------------------------------------------------------------
(* bind(event, handler) *)

\* the bind calls made so far
NumBinds == Sum([i \in 1..Len(EventNames) |-> Len(binds[EventNames[i]])])

\* the anchor that bind subscribes on for an event
BindTarget(event) ==
    CASE event = "newTodo" -> "$newTodo"
      [] event = "removeCompleted" -> "$clearCompleted"
      [] event = "toggleAll" -> "$toggleAll"
      [] OTHER -> "$todoList"

\* $on and $delegate with a reference that is null: an absent anchor's
\* operation is a no-op at the call site, no subscription is made
Subscribe(found, target, ls, subscribed) ==
    IF target \in found THEN subscribed ELSE ls

Bind(event, handler) ==
    /\ NumBinds < MaxBinds
    /\ listeners' = Subscribe(anchors.found, BindTarget(event), listeners,
                              bind(listeners, event, handler))
    /\ binds' = [binds EXCEPT ![event] = Append(@, handler)]
    /\ calls' = <<>>
    /\ last' = Cmd("bind", 0, <<event, handler>>)
    /\ UNCHANGED <<todoList, filters, anchors>>

----------------------------------------------------------------------------
(* User input: the raw events of the rendering surface *)

\* an event on a child element of node p that is not an edit field
ItemEvent(op, type, kind, p, list) ==
    LET st == Dispatch(listeners, type, kind, list[p], St(NoField), 0)
    IN  /\ todoList' = list
        /\ calls' = st.calls
        /\ last' = [Cmd(op, list[p].item, "") EXCEPT
                      !.k = p, !.within = st.within]
        /\ UNCHANGED <<filters, anchors, listeners, binds>>

DblClickLabel(p) == ItemEvent("dblclick", "dblclick", "label", p, todoList)

ClickDestroy(p) == ItemEvent("clickDestroy", "click", "destroy", p, todoList)

\* the checkbox changes state before its click event is dispatched
ClickToggle(p) ==
    ItemEvent("clickToggle", "click", "toggle", p,
              [todoList EXCEPT ![p].checked = ~@])

\* an event on edit field k of node p, handled as st describes
EditEvent(op, p, k, key, list, st) ==
    /\ todoList' = [list EXCEPT ![p].edits[k] = st.field]
    /\ calls' = st.calls
    /\ last' = [Cmd(op, list[p].item, key) EXCEPT
                  !.k = k, !.within = st.within]
    /\ UNCHANGED <<filters, anchors, listeners, binds>>

\* the user moves the focus out of the field
BlurEdit(p, k) ==
    /\ todoList[p].edits[k].focused
    /\ EditEvent("blur", p, k, 0, todoList,
                 ElementBlur(todoList[p], St(todoList[p].edits[k])))

\* the user clicks into a field: the field that had focus loses it
FocusEdit(p, k) ==
    /\ ~todoList[p].edits[k].focused
    /\ LET blurred == BlurFocused(todoList)
       IN  /\ todoList' = [blurred.list EXCEPT ![p].edits[k].focused = TRUE]
           /\ calls' = blurred.calls
           /\ last' = [Cmd("focus", todoList[p].item, "") EXCEPT
                         !.k = k, !.within = blurred.within]
           /\ UNCHANGED <<filters, anchors, listeners, binds>>

\* the user changes the text of the field that has focus
InputEdit(p, k, value) ==
    /\ todoList[p].edits[k].focused
    /\ todoList[p].edits[k].value # value
    /\ EditEvent("input", p, k, 0, todoList,
                 [St(todoList[p].edits[k]) EXCEPT !.field.value = value])

KeypressEdit(p, k, key) ==
    /\ todoList[p].edits[k].focused
    /\ EditEvent("keypress", p, k, key, todoList,
                 Dispatch(listeners, "keypress", "edit", todoList[p],
                          St(todoList[p].edits[k]), key))

\* mutant: the view restores the display itself when Escape is released
KeyupEditRestoring(p, k, key) ==
    /\ todoList[p].edits[k].focused
    /\ LET st == Dispatch(listeners, "keyup", "edit", todoList[p],
                          St(todoList[p].edits[k]), key)
           after == [todoList EXCEPT ![p].edits[k] = st.field]
       IN  /\ todoList' = IF key = ESCAPE_KEY
                           THEN _editItemDone(after, todoList[p].item,
                                              todoList[p].label).list
                           ELSE after
           /\ calls' = st.calls
           /\ last' = [Cmd("keyup", todoList[p].item, key) EXCEPT
                         !.k = k, !.within = st.within]
           /\ UNCHANGED <<filters, anchors, listeners, binds>>

KeyupEdit(p, k, key) ==
    /\ todoList[p].edits[k].focused
    /\ EditEvent("keyup", p, k, key, todoList,
                 Dispatch(listeners, "keyup", "edit", todoList[p],
                          St(todoList[p].edits[k]), key))

\* an event on one of the anchors, after the anchors took their new state
AnchorEvent(op, type, target, a) ==
    LET st == Dispatch(listeners, type, target, NoNode,
                       [St(NoField) EXCEPT !.anchors = a], 0)
    IN  /\ target \in anchors.found
        /\ anchors' = a
        /\ calls' = st.calls
        /\ last' = [Cmd(op, 0, "") EXCEPT !.within = st.within]
        /\ UNCHANGED <<todoList, filters, listeners, binds>>

ChangeNewTodo(value) ==
    AnchorEvent("changeNewTodo", "change", "$newTodo",
                [anchors EXCEPT !.newTodo = value])

ClickClearCompleted ==
    AnchorEvent("clickClearCompleted", "click", "$clearCompleted", anchors)

ClickToggleAll ==
    AnchorEvent("clickToggleAll", "click", "$toggleAll",
                [anchors EXCEPT !.toggleAll = ~@])

Fields == {pk \in (1..Len(todoList)) \X (1..MaxNodes) :
              pk[2] <= Len(todoList[pk[1]].edits)}

----------------------------------------------------------------------------
(* Specifications *)

\* render commands on the list, with parameters from the given sets
ListCmds(colls, titles) ==
    \/ \E items \in colls : ShowEntries(items)
    \/ \E id \in Ids : RemoveItem(id)
    \/ \E id \in Ids, completed \in BOOLEAN : ElementComplete(id, completed)
    \/ \E id \in Ids, title \in titles : EditItem(id, title)
    \/ \E id \in Ids, title \in titles : EditItemDone(id, title)

PageCmds ==
    \/ \E checked \in BOOLEAN : ToggleAll(checked)
    \/ \E page \in Pages : SetFilter(page)
    \/ ClearNewTodo

ItemInput ==
    \/ \E p \in 1..Len(todoList) : DblClickLabel(p)
    \/ \E p \in 1..Len(todoList) : ClickDestroy(p)
    \/ \E p \in 1..Len(todoList) : ClickToggle(p)
    \/ \E pk \in Fields : BlurEdit(pk[1], pk[2])
    \/ \E pk \in Fields : FocusEdit(pk[1], pk[2])
    \/ \E pk \in Fields, key \in Keys : KeypressEdit(pk[1], pk[2], key)
    \/ \E pk \in Fields, key \in Keys : KeyupEdit(pk[1], pk[2], key)

TextInput(titles) ==
    \E pk \in Fields, value \in titles : InputEdit(pk[1], pk[2], value)

PageInput(titles) ==
    \/ \E value \in titles : ChangeNewTodo(value)
    \/ ClickClearCompleted
    \/ ClickToggleAll

\* The view from its construction on: the controller binds handlers at any
\* time, to any event, while a one-item list is shown and used with one edit
\* field open at a time.
Fixtures == {<<[id |-> 12, title |-> "A", completed |-> FALSE]>>}

Next ==
    \/ \E event \in Events, handler \in Handlers : Bind(event, handler)
    \/ \E items \in Fixtures : ShowEntries(items)
    \/ \E id \in Ids : NumEdits(todoList) = 0 /\ EditItem(id, "A")
    \/ ItemInput
    \/ PageInput({"A"})

Spec == Init /\ [][Next]_vars

\* The page around the list, from the construction of the view on.
NextPage ==
    \/ PageCmds
    \/ PageInput(Titles)
    \/ \E event \in Events, handler \in Handlers : Bind(event, handler)

SpecPage == Init /\ [][NextPage]_vars

\* The view as the application wires it: the controller has bound one
\* handler to each event before the first render command.
RECURSIVE BindAll(_, _, _)
BindAll(ls, events, handler) ==
    IF events = <<>> THEN ls
    ELSE BindAll(bind(ls, Head(events), handler), Tail(events), handler)

InitWired ==
    /\ todoList = <<>>
    /\ filters = <<[page |-> "", className |-> "selected"],
                   [page |-> "active", className |-> ""],
                   [page |-> "completed", className |-> ""]>>
    /\ anchors = Document(AnchorNames)
    /\ listeners = BindAll(NoListeners, EventNames, "h1")
    /\ binds = [e \in Events |-> <<"h1">>]
    /\ calls = <<>>
    /\ last = NoCmd

\* The wired view showing lists of up to two items, with one edit field
\* open at a time.
NextList ==
    \/ \E items \in Collections : ShowEntries(items)
    \/ \E id \in Ids : RemoveItem(id)
    \/ \E id \in Ids, completed \in BOOLEAN : ElementComplete(id, completed)
    \/ \E id \in Ids, title \in Titles :
          NumEdits(todoList) = 0 /\ EditItem(id, title)
    \/ \E id \in Ids, title \in Titles : EditItemDone(id, title)
    \/ ItemInput
    \/ TextInput(Titles)

SpecList == InitWired /\ [][NextList]_vars

\* The view constructed on a document that lacks at most one of the anchors:
\* the commands and the bind calls that work on the anchors, and render with
\* a name that is not a command.
Documents == {AnchorNames} \cup {AnchorNames \ {a} : a \in AnchorNames}

\* the parameter of clearCompletedButton, as the controller may write it
ClearParameters ==
    {[completed |-> n, visible |-> v] : n \in Counts, v \in BOOLEAN}
    \cup {[completedCount |-> n, visible |-> v] : n \in Counts, v \in BOOLEAN}

InitAnchors ==
    /\ todoList = <<>>
    /\ filters = <<[page |-> "", className |-> "selected"],
                   [page |-> "active", className |-> ""],
                   [page |-> "completed", className |-> ""]>>
    /\ anchors \in {Document(found) : found \in Documents}
    /\ listeners = NoListeners
    /\ binds = [e \in Events |-> <<>>]
    /\ calls = <<>>
    /\ last = NoCmd

NextAnchors ==
    \/ \E items \in Fixtures : ShowEntries(items)
    \/ \E count \in Counts : UpdateElementCount(count)
    \/ \E parameter \in ClearParameters : ClearCompletedButton(parameter)
    \/ \E visible \in BOOLEAN : ContentBlockVisibility(visible)
    \/ \E checked \in BOOLEAN : ToggleAll(checked)
    \/ ClearNewTodo
    \/ \E viewCmd \in OtherNames : Render(viewCmd)
    \/ \E event \in {"newTodo", "removeCompleted", "toggleAll"} :
          Bind(event, "h1")

SpecAnchors == InitAnchors /\ [][NextAnchors]_vars

\* The wired view showing one item, on which editItem is issued again while
\* edit fields are open.
Singles ==
    {<<>>} \cup {<<[id |-> 12, title |-> "A", completed |-> c]>> :
                    c \in BOOLEAN}

NextEdit ==
    \/ ListCmds(Singles, Titles)
    \/ ItemInput
    \/ TextInput(Titles)

SpecEdit == InitWired /\ [][NextEdit]_vars

----------------------------------------------------------------------------
(* Properties *)

Range(s) == {s[i] : i \in DOMAIN s}

\* the node rendered from the item that the most recent step names
HasTarget == \E i \in 1..Len(todoList) : todoList[i].item = last.id

Target == todoList[CHOOSE i \in 1..Len(todoList) : todoList[i].item = last.id]

\* the edit field the most recent input event happened on
TargetField == Target.edits[last.k]

Escaped == last.op = "keyup" /\ last.arg = ESCAPE_KEY

\* C1: an Escape key-up on an edit field invokes the itemEditCancel handler
\* exactly once, with the id of the field's item, and does not invoke the
\* itemEditDone handler: the blur that Escape forces finds the flag set.
C1_CancelSequence ==
    Escaped => calls = <<Call("itemEditCancel", "h1", [id |-> last.id])>>

\* the field was seeded by editItem, Escape was released on it, it has lost
\* the focus and carries the flag, and only the cancel handler ran
C1_Witness ==
    /\ Escaped
    /\ TargetField.iscanceled /\ ~TargetField.focused
    /\ Len(calls) = 1 /\ calls[1].event = "itemEditCancel"

Committed ==
    /\ last.op = "blur" \/ (last.op = "keypress" /\ last.arg = ENTER_KEY)
    /\ ~TargetField.iscanceled

\* C2: when an edit field without cancellation flag loses focus, by a blur
\* or by an Enter key press, the itemEditDone handler is invoked exactly once,
\* with the id of the enclosing item and the field's current value as title.
C2_CommitSequence ==
    Committed =>
        calls = <<Call("itemEditDone", "h1",
                       [id |-> last.id, title |-> TargetField.value])>>

\* Enter committed a text that differs from the label of its item
C2_Witness ==
    /\ Committed /\ last.op = "keypress"
    /\ Len(calls) = 1 /\ calls[1].payload.title # Target.label
    /\ last.id = 12

NotEditing(node) ==
    /\ node.edits = <<>>
    /\ "editing" \notin Range(node.className)

\* C3 as claimed: after editItemDone on an existing node, whatever preceded
\* it, the node has no edit field, no editing class, and the title as label.
C3_Original ==
    (last.op = "editItemDone" /\ last.found) =>
        NotEditing(Target) /\ Target.label = last.arg

\* C3: after editItemDone on a node that holds exactly one edit field, the
\* node has no edit field, no editing class, and its label text is the title.
C3_EditItemDone ==
    [][\A i \in 1..Len(todoList) :
          (/\ last'.op = "editItemDone"
           /\ todoList[i].item = last'.id
           /\ Len(todoList[i].edits) = 1)
          => (/\ Len(todoList') = Len(todoList)
              /\ todoList'[i].item = last'.id
              /\ NotEditing(todoList'[i])
              /\ todoList'[i].label = last'.arg)]_vars

\* editItemDone removed the only edit field of a completed node and changed
\* its label
C3_Witness ==
    /\ last.op = "editItemDone" /\ last.found /\ ~last.fault
    /\ NotEditing(Target) /\ Target.label = last.arg
    /\ Target.className = <<"completed">>

EditingWith(node, title) ==
    /\ Len(node.edits) = 1
    /\ node.edits[1].value = title
    /\ node.edits[1].focused
    /\ "editing" \in Range(node.className)

\* C4 as claimed: after editItem on an existing node, in whatever state it
\* was, the node holds exactly one edit field, seeded and focused.
C4_Original ==
    (last.op = "editItem" /\ last.found) => EditingWith(Target, last.arg)

\* C4: after editItem on a node that holds no edit field, the node holds
\* exactly one edit field, whose value is the title and which has the input
\* focus, and the node carries the editing class.
C4_EditItem ==
    [][\A i \in 1..Len(todoList) :
          (/\ last'.op = "editItem"
           /\ todoList[i].item = last'.id
           /\ todoList[i].edits = <<>>)
          => (/\ Len(todoList') = Len(todoList)
              /\ todoList'[i].item = last'.id
              /\ EditingWith(todoList'[i], last'.arg)
              /\ FocusedFields(todoList') = {<<i, 1>>})]_vars

\* editItem opened the one edit field of a node, seeded with a title other
\* than the text of the label, and the field has the focus
C4_Witness ==
    /\ last.op = "editItem" /\ last.found
    /\ Target.label = "A" /\ last.arg = "B"
    /\ EditingWith(Target, last.arg)
    /\ Cardinality(FocusedFields(todoList)) = 1

\* the event that the most recent step is the raw trigger of
Triggered ==
    CASE last.op = "changeNewTodo" -> "newTodo"
      [] last.op = "clickClearCompleted" -> "removeCompleted"
      [] last.op = "clickToggleAll" -> "toggleAll"
      [] last.op = "dblclick" -> "itemEdit"
      [] last.op = "clickDestroy" -> "itemRemove"
      [] last.op = "clickToggle" -> "itemToggle"
      [] Committed -> "itemEditDone"
      [] Escaped -> "itemEditCancel"
      [] OTHER -> "none"

\* the handlers invoked by the most recent step, all for its event
Invoked == [i \in 1..Len(calls) |-> calls[i].handler]

OnlyTriggered == \A i \in 1..Len(calls) : calls[i].event = Triggered

\* the handlers of the bind calls made for an event, in the order of the calls
BoundTo(e) == binds[e]

C6_RemoveItem ==
    [][last'.op = "removeItem" =>
          todoList' = SelectSeq(todoList, LAMBDA n : n.item # last'.id)]_vars

\* a node was removed and a node that is being edited is what remains
C6_Witness ==
    /\ last.op = "removeItem" /\ last.found
    /\ Len(todoList) = 1 /\ todoList[1].edits # <<>>

\* C7: showEntries replaces the content of the list: afterwards the list
\* holds one node per item, in order, with the identifier of its item, and
\* nothing of the previous content (no edit field, no focus).
C7_ShowEntries ==
    last.op = "showEntries" =>
        /\ Len(todoList) = Len(last.arg)
        /\ \A i \in 1..Len(todoList) :
              /\ ParseInt(todoList[i].dataId) = last.arg[i].id
              /\ todoList[i].edits = <<>>

C7_Witness ==
    /\ last.op = "showEntries"
    /\ Len(todoList) = 2
    /\ todoList[1].dataId = <<1, 2>> /\ todoList[2].dataId = <<3>>

\* C8 as claimed: elementComplete(true) then elementComplete(false) restores
\* the class and the checkbox that the node had before, whatever they were.
C8_Original ==
    (last.op = "elementComplete" /\ last.orig # <<>>) =>
        /\ Target.className = last.orig[1]
        /\ Target.checked = last.orig[2]

\* C8: on a node with an empty class and an unchecked checkbox,
\* elementComplete(true) then elementComplete(false) restores both.
C8_PairedToggle ==
    (last.op = "elementComplete" /\ last.orig = <<<<>>, FALSE>>) =>
        /\ Target.className = <<>>
        /\ ~Target.checked

C8_Witness ==
    /\ last.op = "elementComplete" /\ last.orig = <<<<>>, FALSE>>
    /\ Target.className = <<>> /\ ~Target.checked

Selected == {i \in 1..Len(filters) : filters[i].className = "selected"}

\* C9: exactly one filter link carries the selected marker, and after
\* setFilter(page) it is the link of that page.
C9_SetFilter ==
    /\ Cardinality(Selected) = 1
    /\ last.op = "setFilter" =>
          /\ ~last.fault
          /\ \A i \in Selected : filters[i].page = last.arg

C9_Witness ==
    /\ last.op = "setFilter" /\ last.arg = "completed"
    /\ Selected = {3}

\* C10: handlers bound before a node existed are invoked for it: a raw
\* trigger on a node that showEntries added invokes the handler bound to the
\* event with the id of that node.
C10_Delegated ==
    /\ last.op = "dblclick" =>
          calls = <<Call("itemEdit", "h1", [id |-> last.id])>>
    /\ last.op = "clickDestroy" =>
          calls = <<Call("itemRemove", "h1", [id |-> last.id])>>
    /\ last.op = "clickToggle" =>
          calls = <<Call("itemToggle", "h1",
                         [id |-> last.id, completed |-> Target.checked])>>
    /\ Committed =>
          \E i \in 1..Len(calls) :
              calls[i].event = "itemEditDone" /\ calls[i].payload.id = last.id
    /\ Escaped =>
          \E i \in 1..Len(calls) :
              calls[i].event = "itemEditCancel" /\ calls[i].payload.id = last.id

\* the destroy control of the second node of the list was clicked
C10_Witness ==
    /\ last.op = "clickDestroy" /\ last.k = 2 /\ last.id = 12
    /\ todoList[2].item = 12
    /\ Len(calls) = 1 /\ calls[1].payload.id = 12

\* C11 as claimed: render with a name that is not one of the eleven commands
\* throws and leaves the list, the filters and every anchor as they were.
C11_Original ==
    [][last'.op = "render" =>
          /\ last'.fault
          /\ UNCHANGED <<todoList, filters, anchors>>]_vars

\* the anchors that a command or a bind call works on
AnchorsOf(cmd) ==
    CASE cmd.op = "showEntries" -> {"$todoList"}
      [] cmd.op = "updateElementCount" -> {"$todoItemCounter"}
      [] cmd.op = "clearCompletedButton" -> {"$clearCompleted"}
      [] cmd.op = "contentBlockVisibility" -> {"$main", "$footer"}
      [] cmd.op = "toggleAll" -> {"$toggleAll"}
      [] cmd.op = "clearNewTodo" -> {"$newTodo"}
      [] cmd.op = "bind" -> {BindTarget(cmd.arg[1])}
      [] OTHER -> {}

\* C12 as claimed: a render command or a bind call on an anchor that was not
\* found at construction completes without fault and changes nothing.
C12_Original ==
    [][(AnchorsOf(last') \ anchors.found # {}) =>
          /\ ~last'.fault
          /\ UNCHANGED <<todoList, filters, anchors, listeners>>]_vars

ClearCompletedShown ==
    /\ last.op = "clearCompletedButton"
    /\ "$clearCompleted" \in anchors.found

\* C14 as claimed: clearCompletedButton with {completedCount, visible} sets
\* the label of the control to the template's text for completedCount and
\* shows the control exactly when visible is true.
C14_Original ==
    (ClearCompletedShown /\ "completedCount" \in DOMAIN last.arg) =>
        /\ anchors.clearCompleted.innerHTML =
              Template("clearCompletedButton", <<last.arg.completedCount>>)
        /\ anchors.clearCompleted.display = "block" <=> last.arg.visible

\* C14: clearCompletedButton sets the label of the control to the template's
\* text for the property completed of its parameter (for undefined when the
\* parameter has no such property, whatever completedCount it carries) and
\* shows the control exactly when visible is true.
C14_ClearCompletedButton ==
    ClearCompletedShown =>
        /\ ~last.fault
        /\ anchors.clearCompleted.innerHTML.template = "clearCompletedButton"
        /\ anchors.clearCompleted.innerHTML.of =
              IF "completed" \in DOMAIN last.arg
              THEN <<last.arg.completed>> ELSE <<>>
        /\ anchors.clearCompleted.display \in {"block", "none"}
        /\ anchors.clearCompleted.display = "block" <=> last.arg.visible

\* the control was hidden with the label for two completed items
C14_Witness ==
    /\ ClearCompletedShown
    /\ last.arg = [completed |-> 2, visible |-> FALSE]
    /\ anchors.clearCompleted =
          [innerHTML |-> Template("clearCompletedButton", <<2>>),
           display   |-> "none"]

ItemCommands == {"removeItem", "elementComplete", "editItem", "editItemDone"}

\* C13: removeItem, elementComplete, editItem and editItemDone with an id
\* that no item node has complete without fault, invoke no handler and leave
\* the list, the filters and the anchors unchanged.
C13_AbsentId ==
    [][(/\ last'.op \in ItemCommands
        /\ \A i \in 1..Len(todoList) : todoList[i].item # last'.id)
       => (/\ ~last'.fault
           /\ calls' = <<>>
           /\ UNCHANGED <<todoList, filters, anchors>>)]_vars

\* editItemDone named an id that is not in the list while the edit field of
\* another node had the focus, and the field stayed as it was
C13_Witness ==
    /\ last.op = "editItemDone" /\ ~HasTarget /\ ~last.fault
    /\ FocusedFields(todoList) # {}

\* the steps that are raw events of the list, not render commands
InputOps ==
    {"dblclick", "clickDestroy", "clickToggle", "blur", "focus", "input",
     "keypress", "keyup"}

\* every node keeps its class, its label text and its edit fields
SameDisplay ==
    /\ Len(todoList') = Len(todoList)
    /\ \A i \in 1..Len(todoList) :
          /\ todoList'[i].className = todoList[i].className
          /\ todoList'[i].label = todoList[i].label
          /\ Len(todoList'[i].edits) = Len(todoList[i].edits)

\* C15: an Escape on an edit field leaves the field in its node, with its
\* text, and leaves the class and the label text of the node as they were;
\* no later raw event changes them either, only a render command does.
C15_CancelKeepsDisplay ==
    [][/\ last'.op \in InputOps => SameDisplay
       /\ (last'.op = "keyup" /\ last'.arg = ESCAPE_KEY) =>
             \A i \in 1..Len(todoList) :
                \A k \in 1..Len(todoList[i].edits) :
                   todoList'[i].edits[k].value = todoList[i].edits[k].value]_vars

\* Escape was released on a field whose text differs from the label: the
\* node is still editing, with the field, its text and the old label
C15_Witness ==
    /\ Escaped
    /\ Len(Target.edits) = 1 /\ TargetField.value = "B"
    /\ Target.label = "A"
    /\ "editing" \in Range(Target.className)

\* C16 as claimed: no handler is invoked while another listener of the
\* binder is still executing: every call is made by the one listener that
\* is executing.
C16_Original ==
    \A i \in 1..Len(last.within) : Len(last.within[i]) = 1

\* C16: every listener runs to completion within the step of its raw event,
\* and the only handler invoked while another listener is still executing
\* is the itemEditDone handler, invoked by the blur listener for the blur
\* that the Enter key-press listener forces; the blur that the Escape key-up
\* listener forces invokes no handler.
C16_RunToCompletion ==
    /\ Len(last.within) = Len(calls)
    /\ \A i \in 1..Len(calls) :
          \/ /\ Len(last.within[i]) = 1
             /\ EventOf(last.within[i][1]) = calls[i].event
          \/ /\ last.within[i] = <<"itemEditDone.keypress", "itemEditDone.blur">>
             /\ calls[i].event = "itemEditDone"
             /\ last.op = "keypress" /\ last.arg = ENTER_KEY

\* Enter committed an edit: the handler ran inside the blur listener, which
\* ran inside the key-press listener
C16_Witness ==
    /\ last.op = "keypress" /\ last.arg = ENTER_KEY
    /\ Len(calls) = 1 /\ calls[1].event = "itemEditDone"
    /\ last.within = <<<<"itemEditDone.keypress", "itemEditDone.blur">>>>

\* the identifiers of the nodes of a list, in document order
DataIds(list) == [i \in 1..Len(list) |-> list[i].dataId]

\* C17: with collections of pairwise distinct ids the list never holds two
\* nodes with the same identifier, and only showEntries and removeItem
\* change which identifiers are in the list.
C17_OneNodePerId ==
    /\ [](\A i, j \in 1..Len(todoList) :
            todoList[i].dataId = todoList[j].dataId => i = j)
    /\ [][last'.op \notin {"showEntries", "removeItem"} =>
            DataIds(todoList') = DataIds(todoList)]_vars

\* a list of two nodes, one of them edited and committed since it was shown
C17_Witness ==
    /\ last.op = "editItemDone" /\ last.found /\ ~last.fault
    /\ Len(todoList) = 2
    /\ todoList[1].dataId # todoList[2].dataId

\* the edit fields of the list that carry the cancellation flag
Cancelled ==
    {pk \in Fields : todoList[pk[1]].edits[pk[2]].iscanceled}

\* C18: Escape sets the cancellation flag of its field, and the flag stays
\* set for as long as the field exists: raw events and the commands that
\* keep the field leave it set (editItemDone removes the first field of its
\* node and the others move up).  No step in which a flagged field loses
\* the focus invokes the itemEditDone handler.
C18_FlagKept ==
    [][/\ (last'.op = "keyup" /\ last'.arg = ESCAPE_KEY) =>
             \E p \in 1..Len(todoList') :
                /\ todoList'[p].item = last'.id
                /\ todoList'[p].edits[last'.k].iscanceled
       /\ \A pk \in Cancelled :
             LET p == pk[1]
                 k == pk[2]
                 shifted == /\ last'.op = "editItemDone"
                            /\ last'.id = todoList[p].item
                            /\ ~last'.fault
             IN  /\ (last'.op \in InputOps \cup {"editItem", "elementComplete"}
                      \/ (last'.op = "editItemDone" /\ ~shifted))
                        => todoList'[p].edits[k].iscanceled
                 /\ (shifted /\ k > 1) => todoList'[p].edits[k - 1].iscanceled
                 /\ todoList[p].edits[k].focused =>
                        \A i \in 1..Len(calls') :
                           calls'[i].event # "itemEditDone"]_vars

\* a field that Escape had cancelled was given the focus again, its text
\* was changed, and its blur invoked no handler
C18_Witness ==
    /\ last.op = "blur"
    /\ TargetField.iscanceled /\ ~TargetField.focused
    /\ TargetField.value = "B"
    /\ calls = <<>>

\* C19 as claimed: editItemDone on a node that holds no edit field completes
\* without fault and sets the label text to the title.
C19_Original ==
    [][\A i \in 1..Len(todoList) :
          (/\ last'.op = "editItemDone"
           /\ todoList[i].item = last'.id
           /\ todoList[i].edits = <<>>)
          => (/\ ~last'.fault
              /\ todoList'[i].label = last'.arg)]_vars

\* the number of times the class of a node holds the word editing
Editings(node) == Len(SelectSeq(node.className, LAMBDA c : c = "editing"))

\* C20 as claimed: a node carries the editing class if and only if it holds
\* an edit field, and it holds at most one edit field.
C20_Original ==
    \A i \in 1..Len(todoList) :
       /\ "editing" \in Range(todoList[i].className) <=>
             todoList[i].edits # <<>>
       /\ Len(todoList[i].edits) <= 1

\* C20: a node that carries the editing class holds an edit field: the
\* class holds the word editing at most as many times as the node holds
\* edit fields.
C20_EditingHasField ==
    \A i \in 1..Len(todoList) :
       /\ Editings(todoList[i]) <= Len(todoList[i].edits)
       /\ "editing" \in Range(todoList[i].className) =>
             todoList[i].edits # <<>>

\* editItem was issued twice and editItemDone once: one field and one word
\* editing remain
C20_Witness ==
    /\ last.op = "editItemDone" /\ last.found /\ ~last.fault
    /\ Len(Target.edits) = 1
    /\ Editings(Target) = 1

====
